---- MODULE Spec2Model ----
(***************************************************************************)
(* A model of cargo-nds: the command model of src/src/command.rs and the   *)
(* build pipeline of src/src/lib.rs.                                       *)
(*                                                                         *)
(* Strings are sequences of one-character strings, so that starts_with,    *)
(* split_once and == are computed on the characters as the code does.      *)
(* Option<T> is a sequence of length 0 (None) or 1 (Some).                 *)
(***************************************************************************)
EXTENDS Integers, Sequences, FiniteSets, TLC

VARIABLES
    cmds,        \* instance id -> the parsed CargoCmd value
    HAS_RUNNER,  \* the process-wide OnceLock<bool> of Run::use_custom_runner
    environ,     \* the parent process's environment variables
    spawned,     \* the child commands the program has spawned (or tried to), in order
    stderr,      \* diagnostics printed with eprintln!, in order
    messages,    \* the build messages parsed from cargo's standard output
    ret,         \* the last operation called: its name, instance, input and result
    pc,          \* position of main in the invocation pipeline
    exit_code,   \* Option<i32>: the code process::exit was called with
    calls,       \* number of API calls made so far
    answers      \* instance id -> the values use_custom_runner has returned for it

vars == <<cmds, HAS_RUNNER, environ, spawned, stderr, messages, ret, pc,
          exit_code, calls, answers>>

-----------------------------------------------------------------------------
(* Bounds of the model *)

MaxArgs == 3
MaxCalls == 3
MaxMsgs == 3

-----------------------------------------------------------------------------
(* Option, Result and strings *)

None == <<>>
Some(v) == <<v>>
IsSome(o) == Len(o) = 1
Unwrap(o) == o[1]

\* Result<Option<String>, String>, and the panic that unwinds out of the call
Ok(v) == [tag |-> "Ok", val |-> v, msg |-> ""]
Err(m) == [tag |-> "Err", val |-> None, msg |-> m]
Panic == [tag |-> "Panic", val |-> None, msg |-> ""]

\* str::starts_with
StartsWith(s, p) == Len(p) <= Len(s) /\ SubSeq(s, 1, Len(p)) = p

\* Iterator::position on the characters of a string: 0 when absent
CharPosition(s, c) ==
    IF \E i \in 1..Len(s) : s[i] = c
    THEN CHOOSE i \in 1..Len(s) : s[i] = c /\ \A j \in 1..(i - 1) : s[j] # c
    ELSE 0

\* str::split_once(c): None, or Some(<<before, after>>) around the first c
SplitOnce(s, c) ==
    LET i == CharPosition(s, c)
    IN  IF i = 0 THEN None
        ELSE Some(<<SubSeq(s, 1, i - 1), SubSeq(s, i + 1, Len(s))>>)

\* Vec::remove(index) with a 1-based index; the caller checks the range
Remove(v, i) == SubSeq(v, 1, i - 1) \o SubSeq(v, i + 1, Len(v))

\* the string literals of the program
MESSAGE_FORMAT == <<"-", "-", "m", "e", "s", "s", "a", "g", "e", "-",
                    "f", "o", "r", "m", "a", "t">>
JSON == <<"j", "s", "o", "n">>
HUMAN == <<"h", "u", "m", "a", "n">>
DELIM == <<"-", "-">>
EQ == "="
DEFAULT_MESSAGE_FORMAT == JSON \o <<"-", "r", "e", "n", "d", "e", "r", "-",
                                    "d", "i", "a", "g", "n", "o", "s", "t", "i", "c", "s">>
\* the error message of command.rs:305, without its quote marks
UNSUPPORTED == "error: non-JSON message-format is not supported"

\* tokens a user may pass
FOO == <<"-", "-", "f", "o", "o">>
BAR == <<"b", "a", "r">>
CHECK == <<"c", "h", "e", "c", "k">>

Tokens ==
    { FOO, BAR, DELIM, JSON,
      MESSAGE_FORMAT,
      MESSAGE_FORMAT \o <<EQ>> \o JSON,
      MESSAGE_FORMAT \o <<EQ>> \o BAR,
      MESSAGE_FORMAT \o <<"s", EQ>> \o JSON \o <<EQ>> }

\* all sequences over S of length at most n
RECURSIVE SeqsUpTo(_, _)
SeqsUpTo(S, n) ==
    IF n = 0 THEN {<<>>}
    ELSE LET shorter == SeqsUpTo(S, n - 1)
         IN  shorter \cup {Append(s, x) : s \in {t \in shorter : Len(t) = n - 1}, x \in S}

-----------------------------------------------------------------------------
(* src/src/command.rs: pure parts *)

\* position of the first token starting with "--message-format", 0 when absent
FlagPosition(cargo_args) ==
    IF \E i \in 1..Len(cargo_args) : StartsWith(cargo_args[i], MESSAGE_FORMAT)
    THEN CHOOSE i \in 1..Len(cargo_args) :
            /\ StartsWith(cargo_args[i], MESSAGE_FORMAT)
            /\ \A j \in 1..(i - 1) : ~StartsWith(cargo_args[j], MESSAGE_FORMAT)
    ELSE 0

\* extract_message_format_from_args without the second remove: the value token
\* of the space-separated shape stays in the list
ExtractKeepValue(cargo_args) ==
    LET pos == FlagPosition(cargo_args)
    IN  IF pos = 0 THEN [args |-> cargo_args, res |-> Ok(None)]
        ELSE
          LET arg == cargo_args[pos]
              removed == Remove(cargo_args, pos)
              split == SplitOnce(arg, EQ)
          IN  IF ~IsSome(split) /\ pos > Len(removed)
              THEN [args |-> removed, res |-> Panic]
              ELSE
                LET format == IF IsSome(split) THEN Unwrap(split)[2] ELSE removed[pos]
                IN  [args |-> removed,
                     res |-> IF StartsWith(format, JSON) THEN Ok(Some(format))
                             ELSE Err(UNSUPPORTED)]

\* extract_message_format_from_args without the json check
ExtractAcceptAny(cargo_args) ==
    LET pos == FlagPosition(cargo_args)
    IN  IF pos = 0 THEN [args |-> cargo_args, res |-> Ok(None)]
        ELSE
          LET arg == cargo_args[pos]
              removed == Remove(cargo_args, pos)
              split == SplitOnce(arg, EQ)
          IN  IF ~IsSome(split) /\ pos > Len(removed)
              THEN [args |-> removed, res |-> Panic]
              ELSE
                LET format == IF IsSome(split) THEN Unwrap(split)[2] ELSE removed[pos]
                    after == IF IsSome(split) THEN removed ELSE Remove(removed, pos)
                IN  [args |-> after, res |-> Ok(Some(format))]

\* CargoCmd::extract_message_format_from_args: the list afterwards and the result
extract_message_format_from_args(cargo_args) ==
    LET pos == FlagPosition(cargo_args)
    IN  IF pos = 0 THEN [args |-> cargo_args, res |-> Ok(None)]
        ELSE
          LET arg == cargo_args[pos]
              removed == Remove(cargo_args, pos)
              split == SplitOnce(arg, EQ)
          IN  \* cargo_args.remove(pos) panics when no token follows the flag
              IF ~IsSome(split) /\ pos > Len(removed)
              THEN [args |-> removed, res |-> Panic]
              ELSE
                LET format == IF IsSome(split) THEN Unwrap(split)[2] ELSE removed[pos]
                    after == IF IsSome(split) THEN removed ELSE Remove(removed, pos)
                IN  [args |-> after,
                     res |-> IF StartsWith(format, JSON) THEN Ok(Some(format))
                             ELSE Err(UNSUPPORTED)]

\* extract_message_format without the doc-test default
ExtractNoHuman(cmd) ==
    LET r == extract_message_format_from_args(cmd.args)
    IN  [cmd |-> [cmd EXCEPT !.args = r.args], res |-> r.res]

\* CargoCmd::extract_message_format: the command afterwards and the result
extract_message_format(cmd) ==
    LET r == extract_message_format_from_args(cmd.args)
        after == [cmd EXCEPT !.args = r.args]
    IN  IF r.res.tag # "Ok" \/ IsSome(r.res.val) THEN [cmd |-> after, res |-> r.res]
        ELSE IF cmd.kind = "Test" /\ cmd.doc THEN [cmd |-> after, res |-> Ok(Some(HUMAN))]
        ELSE [cmd |-> after, res |-> Ok(None)]

\* position of the first token equal to "--", 0 when absent
DelimPosition(args) ==
    IF \E i \in 1..Len(args) : args[i] = DELIM
    THEN CHOOSE i \in 1..Len(args) : args[i] = DELIM /\ \A j \in 1..(i - 1) : args[j] # DELIM
    ELSE 0

\* split_args without the pop of the delimiter
SplitKeepDelim(args) ==
    LET split == DelimPosition(args)
    IN  IF split = 0 THEN <<args, <<>>>>
        ELSE <<SubSeq(args, 1, split), SubSeq(args, split + 1, Len(args))>>

\* RemainingArgs::split_args: <<cargo args, executable args>>
split_args(args) ==
    LET split == DelimPosition(args)
    IN  IF split = 0 THEN <<args, <<>>>>
        ELSE LET second_half == SubSeq(args, split + 1, Len(args))
                 first_half == SubSeq(args, 1, split)
             IN  <<SubSeq(first_half, 1, Len(first_half) - 1), second_half>>

-----------------------------------------------------------------------------
(* The parsed command line: one record shape for the six CargoCmd variants.  *)
(* args is RemainingArgs::args (Build, Run, Test, New, Init) or the whole    *)
(* external subcommand vector (Passthrough); a field a variant does not have *)
(* keeps its default.                                                        *)

Kinds == {"Build", "Run", "Test", "New", "Init", "Passthrough"}

\* a --config override, passed on to cargo unparsed
CFG == <<"k", EQ, "v">>
ConfigLists == {<<>>, <<CFG>>}

PROJECT_PATH == <<"p", "r", "o", "j">>

\* verbose and config are the global options of Input, copied into the variants
\* (from_global); path is the positional argument of New and Init; address,
\* argv0, server and retries are the options of Run (and so of Test)
Cmd(kind, args, no_run, doc, verbose, config) ==
    [kind |-> kind, args |-> args, no_run |-> no_run, doc |-> doc,
     verbose |-> verbose, config |-> config,
     path |-> IF kind \in {"New", "Init"} THEN PROJECT_PATH ELSE <<>>,
     address |-> None, argv0 |-> None, server |-> FALSE, retries |-> None]

\* the command lines clap can produce over the argument lists in A: no_run and
\* doc are flags of Test only, and an external subcommand vector starts with
\* the subcommand's name
CmdsOver(A, verboses, configs) ==
    {Cmd(k, a, FALSE, FALSE, v, c) :
        k \in {"Build", "Run", "New", "Init"}, a \in A, v \in verboses, c \in configs}
    \cup {Cmd("Test", a, n, d, v, c) :
            a \in A, n \in BOOLEAN, d \in BOOLEAN, v \in verboses, c \in configs}
    \cup {Cmd("Passthrough", <<CHECK>> \o a, FALSE, FALSE, v, c) :
            a \in A, v \in verboses, c \in configs}

\* the last call: the method, the instance, self before the call, the result,
\* and the message_format argument of the two functions that take one
NoCall == [op |-> "none", inst |-> 0, input |-> <<>>, out |-> <<>>, arg |-> None]
Call(op, i, input, out) ==
    [op |-> op, inst |-> i, input |-> input, out |-> out, arg |-> None]

-----------------------------------------------------------------------------
(* The rest of src/src/command.rs and src/src/lib.rs.  A function that       *)
(* changes the process takes the process state p (the static HAS_RUNNER, the *)
(* environment, the children spawned, the diagnostics printed) and returns   *)
(* the state afterwards with its value.  outcome is what the runner probe    *)
(* child does if this call spawns it: the spawn fails, or the child exits    *)
(* zero or non-zero.                                                         *)

ProbeOutcomes == {"zero", "nonzero", "spawnfail"}

ARG_TARGET == <<"-", "-", "t", "a", "r", "g", "e", "t">>
TARGET_JSON_PATH ==
    <<"a", "r", "m", "v", "5", "t", "e", "-", "n", "i", "n", "t", "e", "n", "d", "o", "-",
      "d", "s", ".", "j", "s", "o", "n">>
PROBE_TARGET_JSON_PATH == <<".", "/">> \o TARGET_JSON_PATH
ARG_Z == <<"-", "Z">>
BUILD_STD ==
    <<"b", "u", "i", "l", "d", "-", "s", "t", "d", "=", "c", "o", "r", "e", ",", "a", "l",
      "l", "o", "c">>
ARG_DOC == <<"-", "-", "d", "o", "c">>
DOCTEST_XCOMPILE ==
    <<"d", "o", "c", "t", "e", "s", "t", "-", "x", "c", "o", "m", "p", "i", "l", "e">>
ARG_NO_RUN == <<"-", "-", "n", "o", "-", "r", "u", "n">>
ARG_CONFIG_EQ == <<"-", "-", "c", "o", "n", "f", "i", "g", "=">>
SUB_BUILD == <<"b", "u", "i", "l", "d">>
SUB_RUN == <<"r", "u", "n">>
SUB_TEST == <<"t", "e", "s", "t">>
SUB_NEW == <<"n", "e", "w">>
SUB_INIT == <<"i", "n", "i", "t">>
DEFAULT_BLOCKSDS == "/opt/wonderful/thirdparty/blocksds/core"

Process == [has_runner |-> HAS_RUNNER, environ |-> environ, spawned |-> spawned,
            stderr |-> stderr, answers |-> answers]
With(p, v) == [p |-> p, val |-> v]
\* how a call that may end the process came back: it returned a value, it
\* called process::exit(code), or it panicked (exit code 101)
Returned(v) == [tag |-> "Return", val |-> v, code |-> 0]
Exited(code) == [tag |-> "Exit", val |-> None, code |-> code]
Panicked == [tag |-> "Panic", val |-> None, code |-> 101]
Eprintln(p, line) == [p EXCEPT !.stderr = Append(@, line)]

\* format!("-C link-args=-specs={blocksds}/sys/crts/ds_arm9.specs"), kept in parts
Rustflags(env) ==
    <<"-C link-args=-specs=",
      IF IsSome(env.BLOCKSDS) THEN Unwrap(env.BLOCKSDS) ELSE DEFAULT_BLOCKSDS,
      "/sys/crts/ds_arm9.specs">>

\* cargo(config): the program and the --config={cfg} arguments
cargo(env, config) ==
    [role |-> "cargo", owner |-> 0, status |-> "none",
     program |-> IF IsSome(env.CARGO) THEN Unwrap(env.CARGO) ELSE "cargo",
     argv |-> [n \in 1..Len(config) |-> ARG_CONFIG_EQ \o config[n]],
     envs |-> [RUSTFLAGS |-> None, RUSTDOCFLAGS |-> None],
     stdout |-> "inherit", stderr |-> "inherit", stdin |-> "inherit"]

\* print_command
print_command(p, command) == Eprintln(p, "Running command:")

\* the probe with status().unwrap_or(true): a probe that cannot be spawned
\* counts as a configured runner
RunnerProbeSpawnFailConfigured(p, i, cmd, outcome) ==
    LET env1 == [p.environ EXCEPT !.RUSTFLAGS = Some(Rustflags(p.environ))]
        probe == [cargo(env1, cmd.config) EXCEPT
                    !.argv = @ \o <<ARG_Z, BUILD_STD, ARG_TARGET, PROBE_TARGET_JSON_PATH>>,
                    !.stdout = "null", !.stderr = "null",
                    !.role = "probe", !.owner = i, !.status = outcome]
    IN  [p EXCEPT !.environ = env1, !.spawned = Append(@, probe),
                  !.has_runner = Some(outcome # "nonzero")]

\* the closure of HAS_RUNNER.get_or_init: the probe child process
RunnerProbe(p, i, cmd, outcome) ==
    LET env1 == [p.environ EXCEPT !.RUSTFLAGS = Some(Rustflags(p.environ))]
        base == cargo(env1, cmd.config)
        probe == [base EXCEPT
                    !.argv = @ \o <<ARG_Z, BUILD_STD, ARG_TARGET, PROBE_TARGET_JSON_PATH>>,
                    !.stdout = "null", !.stderr = "null",
                    !.role = "probe", !.owner = i, !.status = outcome]
        p1 == [p EXCEPT !.environ = env1]
        p2 == IF cmd.verbose THEN print_command(p1, probe) ELSE p1
    IN  \* cmd.status().map_or(false, |status| status.success())
        [p2 EXCEPT !.spawned = Append(@, probe),
                   !.has_runner = Some(outcome = "zero")]

\* use_custom_runner without the OnceLock: every call probes again
UseCustomRunnerNoCache(p, i, cmd, outcome) ==
    LET p1 == RunnerProbe(p, i, cmd, outcome)
        custom_runner_configured == Unwrap(p1.has_runner)
        p2 == IF cmd.verbose
              THEN Eprintln(p1, IF custom_runner_configured
                                THEN "Custom runner is configured"
                                ELSE "Custom runner is not configured")
              ELSE p1
    IN  With([p2 EXCEPT !.answers[i] = @ \cup {custom_runner_configured}],
             custom_runner_configured)

\* Run::use_custom_runner on instance i
use_custom_runner(p, i, cmd, outcome) ==
    LET p1 == IF IsSome(p.has_runner) THEN p ELSE RunnerProbe(p, i, cmd, outcome)
        custom_runner_configured == Unwrap(p1.has_runner)
        p2 == IF cmd.verbose
              THEN Eprintln(p1, IF custom_runner_configured
                                THEN "Custom runner is configured"
                                ELSE "Custom runner is not configured")
              ELSE p1
    IN  With([p2 EXCEPT !.answers[i] = @ \cup {custom_runner_configured}],
             custom_runner_configured)

\* subcommand_name with Run always resolved to "run"
SubcommandNameRunAlways(p, i, cmd, outcome) ==
    CASE cmd.kind = "Build" -> With(p, SUB_BUILD)
      [] cmd.kind = "Run" -> With(use_custom_runner(p, i, cmd, outcome).p, SUB_RUN)
      [] cmd.kind = "Test" -> With(p, SUB_TEST)
      [] cmd.kind = "New" -> With(p, SUB_NEW)
      [] cmd.kind = "Init" -> With(p, SUB_INIT)
      [] cmd.kind = "Passthrough" -> With(p, cmd.args[1])

\* CargoCmd::subcommand_name
subcommand_name(p, i, cmd, outcome) ==
    CASE cmd.kind = "Build" -> With(p, SUB_BUILD)
      [] cmd.kind = "Run" ->
            LET r == use_custom_runner(p, i, cmd, outcome)
            IN  With(r.p, IF r.val THEN SUB_RUN ELSE SUB_BUILD)
      [] cmd.kind = "Test" -> With(p, SUB_TEST)
      [] cmd.kind = "New" -> With(p, SUB_NEW)
      [] cmd.kind = "Init" -> With(p, SUB_INIT)
      [] cmd.kind = "Passthrough" -> With(p, cmd.args[1])

\* should_compile without the Passthrough arm
ShouldCompileNoPassthrough(cmd) == cmd.kind \in {"Build", "Run", "Test"}

\* CargoCmd::should_compile
should_compile(cmd) == cmd.kind \in {"Build", "Run", "Test", "Passthrough"}

\* Path::with_extension: "" drops the last extension, a name replaces it
with_extension(path, ext) ==
    LET stem == IF Len(path) > 1 THEN SubSeq(path, 1, Len(path) - 1) ELSE path
    IN  IF ext = <<>> THEN stem ELSE stem \o ext

\* NDSConfig::path_nds and NDSConfig::path_arm9
path_nds(config) == with_extension(with_extension(config.target_path, <<>>), <<"nds">>)
path_arm9(config) ==
    with_extension(with_extension(config.target_path, <<>>), <<"arm9", "elf">>)

\* what build_nds finds: the manifest and nds.toml readable or not, the RomFS
\* directory, and what spawning ndstool does
PackagingWorlds ==
    {[manifest_ok |-> TRUE, romfs |-> r, tool |-> "zero"] : r \in {"dir", "default_absent"}}
    \cup {[manifest_ok |-> TRUE, romfs |-> "default_absent", tool |-> t] :
            t \in {"exit2", "signal", "spawnfail"}}
    \cup {[manifest_ok |-> TRUE, romfs |-> "configured_absent", tool |-> "zero"],
          [manifest_ok |-> FALSE, romfs |-> "default_absent", tool |-> "zero"]}

\* what spawning dslink does
DeployOutcomes == {"zero", "exit2", "signal", "spawnfail"}

\* status.code().unwrap_or(1) of a child that did not succeed
CodeOr1(outcome) == IF outcome = "exit2" THEN 2 ELSE 1

Tool(role, argv, outcome) ==
    [role |-> role, owner |-> 0, status |-> outcome, program |-> role, argv |-> argv,
     envs |-> [RUSTFLAGS |-> None, RUSTDOCFLAGS |-> None],
     stdout |-> "inherit", stderr |-> "inherit", stdin |-> "inherit"]

\* build_nds
build_nds(p, config, verbose, pkg) ==
    IF ~pkg.manifest_ok THEN With(p, Panicked)
    ELSE
      LET base == <<"-c", path_nds(config), "-9", path_arm9(config), "-7", "arm7.elf",
                    "-b", "icon.bmp", "banner">>
          argv == IF pkg.romfs = "dir" THEN base \o <<"-d", "romfs">> ELSE base
          command == Tool("ndstool", argv, pkg.tool)
          p1 == IF pkg.romfs = "dir" THEN Eprintln(p, "Adding RomFS") ELSE p
      IN  IF pkg.romfs = "configured_absent"
          THEN With(Eprintln(p, "Could not find configured RomFS dir"), Exited(1))
          ELSE
            LET p2 == IF verbose THEN print_command(p1, command) ELSE p1
                p3 == [p2 EXCEPT !.spawned = Append(@, command)]
            IN  IF pkg.tool = "spawnfail" THEN With(p3, Panicked)
                ELSE IF pkg.tool # "zero" THEN With(p3, Exited(CodeOr1(pkg.tool)))
                ELSE With(p3, Returned(None))

\* Run::get_dslink_args
get_dslink_args(cmd) ==
    IF IsSome(cmd.address) THEN <<"-a", Unwrap(cmd.address)>> ELSE <<>>

\* link
link(p, config, cmd, verbose, dep) ==
    LET command == Tool("dslink", get_dslink_args(cmd) \o <<path_nds(config)>>, dep)
        p1 == IF verbose THEN print_command(p, command) ELSE p
        p2 == [p1 EXCEPT !.spawned = Append(@, command)]
    IN  IF dep = "spawnfail" THEN With(p2, Panicked)
        ELSE IF dep # "zero" THEN With(p2, Exited(CodeOr1(dep)))
        ELSE With(p2, Returned(None))

\* Build::callback with a build_nds that returns whatever ndstool's status is
BuildCallbackIgnoreStatus(p, cmd, config, pkg) ==
    IF IsSome(config)
    THEN With(build_nds(Eprintln(p, "Building nds"), Unwrap(config), cmd.verbose, pkg).p,
              Returned(None))
    ELSE With(p, Returned(None))

\* Build::callback
build_callback(p, cmd, config, pkg) ==
    IF IsSome(config)
    THEN build_nds(Eprintln(p, "Building nds"), Unwrap(config), cmd.verbose, pkg)
    ELSE With(p, Returned(None))

\* Run::callback
run_callback_of_run(p, i, cmd, config, pkg, dep, outcome) ==
    LET built == build_callback(p, cmd, config, pkg)
    IN  IF built.val.tag # "Return" THEN built
        ELSE LET runner == use_custom_runner(built.p, i, cmd, outcome)
             IN  IF ~runner.val /\ IsSome(config)
                 THEN link(Eprintln(runner.p, "Running dslink"), Unwrap(config), cmd,
                           cmd.verbose, dep)
                 ELSE With(runner.p, Returned(None))

\* Test::callback
test_callback(p, i, cmd, config, pkg, dep, outcome) ==
    IF cmd.no_run THEN build_callback(p, cmd, config, pkg)
    ELSE run_callback_of_run(p, i, cmd, config, pkg, dep, outcome)

\* New::callback and Init::callback: nothing for --lib, else the project files
\* are written; any file system error is an unwrap panic
LIB == <<"-", "-", "l", "i", "b">>
scaffold_callback(p, cmd, fs_ok) ==
    IF \E n \in 1..Len(cmd.args) : cmd.args[n] = LIB THEN With(p, Returned(None))
    ELSE IF fs_ok THEN With(p, Returned(Some("scaffolded")))
    ELSE With(p, Panicked)

\* should_build_ndsx without the doc arm: a Test always packages, silently
ShouldBuildNdsxNoDocArm(p, cmd) == With(p, cmd.kind \in {"Build", "Run", "Test"})

\* CargoCmd::should_build_ndsx
should_build_ndsx(p, cmd) ==
    CASE cmd.kind \in {"Build", "Run"} -> With(p, TRUE)
      [] cmd.kind = "Test" ->
            IF cmd.doc
            THEN With(Eprintln(p, "Documentation tests requested, no ndsx will be built"),
                      FALSE)
            ELSE With(p, TRUE)
      [] OTHER -> With(p, FALSE)

\* should_link_to_device without the no_run arm
ShouldLinkIgnoreNoRun(p, i, cmd, outcome) ==
    CASE cmd.kind \in {"Run", "Test"} ->
            LET r == use_custom_runner(p, i, cmd, outcome)
            IN  With(r.p, ~r.val)
      [] OTHER -> With(p, FALSE)

\* CargoCmd::should_link_to_device
should_link_to_device(p, i, cmd, outcome) ==
    CASE cmd.kind = "Test" /\ cmd.no_run -> With(p, FALSE)
      [] cmd.kind = "Run" \/ (cmd.kind = "Test" /\ ~cmd.no_run) ->
            LET r == use_custom_runner(p, i, cmd, outcome)
            IN  With(r.p, ~r.val)
      [] OTHER -> With(p, FALSE)

\* RemainingArgs::cargo_args and RemainingArgs::exe_args
remaining_cargo_args(args) == split_args(args)[1]
exe_args(args) == split_args(args)[2]

\* should_run without the no_run test
ShouldRunIgnoreNoRun(p, i, cmd, outcome) ==
    LET r == use_custom_runner(p, i, cmd, outcome)
    IN  With(r.p, r.val)

\* Test::should_run
should_run(p, i, cmd, outcome) ==
    LET r == use_custom_runner(p, i, cmd, outcome)
    IN  With(r.p, r.val /\ ~cmd.no_run)

\* Test::cargo_args
test_cargo_args(p, i, cmd, outcome) ==
    LET cargo_args == remaining_cargo_args(cmd.args)
    IN  IF cmd.doc THEN With(p, cargo_args \o <<ARG_DOC, ARG_Z, DOCTEST_XCOMPILE>>)
        ELSE LET r == should_run(p, i, cmd, outcome)
             IN  With(r.p, IF ~r.val THEN Append(cargo_args, ARG_NO_RUN) ELSE cargo_args)

\* Test::rustdocflags
rustdocflags(p, i, cmd, outcome) ==
    LET r == should_run(p, i, cmd, outcome)
    IN  With(r.p, IF r.val THEN "" ELSE " --no-run")

\* CargoCmd::cargo_args
cargo_args(p, i, cmd, outcome) ==
    CASE cmd.kind \in {"Build", "Run"} -> With(p, remaining_cargo_args(cmd.args))
      [] cmd.kind = "Test" -> test_cargo_args(p, i, cmd, outcome)
      [] cmd.kind \in {"New", "Init"} ->
            With(p, Append(remaining_cargo_args(cmd.args), cmd.path))
      [] cmd.kind = "Passthrough" -> With(p, SubSeq(cmd.args, 2, Len(cmd.args)))

\* make_cargo_command: the process afterwards and the command built
make_cargo_command(p, i, cmd, message_format, outcome) ==
    LET rustflags == Rustflags(p.environ)
        base == cargo(p.environ, cmd.config)
        name == subcommand_name(p, i, cmd, outcome)
        c1 == [base EXCEPT !.argv = Append(@, name.val),
                           !.envs.RUSTFLAGS = Some(rustflags)]
        c2 == IF should_compile(cmd)
              THEN [c1 EXCEPT !.argv = @ \o <<ARG_TARGET, TARGET_JSON_PATH, ARG_Z, BUILD_STD,
                                               MESSAGE_FORMAT,
                                               IF IsSome(message_format)
                                               THEN Unwrap(message_format)
                                               ELSE DEFAULT_MESSAGE_FORMAT>>]
              ELSE c1
        flags == IF cmd.kind = "Test" THEN rustdocflags(name.p, i, cmd, outcome) ELSE With(name.p, "")
        c3 == IF cmd.kind = "Test"
              THEN [c2 EXCEPT !.envs.RUSTDOCFLAGS =
                        Some(<<IF IsSome(p.environ.RUSTDOCFLAGS)
                               THEN Unwrap(p.environ.RUSTDOCFLAGS) ELSE "",
                               flags.val>>)]
              ELSE c2
        forwarded == cargo_args(flags.p, i, cmd, outcome)
        c4 == [c3 EXCEPT !.argv = @ \o forwarded.val]
        runner == IF cmd.kind \in {"Run", "Test"}
                  THEN use_custom_runner(forwarded.p, i, cmd, outcome)
                  ELSE With(forwarded.p, FALSE)
        c5 == IF cmd.kind \in {"Run", "Test"} /\ runner.val
              THEN [c4 EXCEPT !.argv = @ \o <<DELIM>> \o exe_args(cmd.args)]
              ELSE c4
    IN  With(runner.p, [c5 EXCEPT !.stdout = "piped", !.stdin = "inherit",
                                  !.stderr = "inherit"])

\* cargo_metadata::Message as far as get_metadata reads it: the variant and,
\* for a CompilerArtifact, its executable
Artifact(executable) == [kind |-> "CompilerArtifact", executable |-> executable]
OtherMessage == [kind |-> "BuildFinished", executable |-> None]
\* a path is its stem followed by its dot-separated extensions
EXE_A == <<"target/a", "arm9", "elf">>
EXE_B == <<"target/b", "arm9", "elf">>
Messages == {Artifact(None), Artifact(Some(EXE_A)), Artifact(Some(EXE_B)), OtherMessage}

\* index of the first CompilerArtifact with an executable among 1..n, or 0
FirstFromStart(msgs, n) ==
    IF \E k \in 1..n : msgs[k].kind = "CompilerArtifact" /\ IsSome(msgs[k].executable)
    THEN CHOOSE k \in 1..n :
            /\ msgs[k].kind = "CompilerArtifact" /\ IsSome(msgs[k].executable)
            /\ \A j \in 1..(k - 1) :
                ~(msgs[j].kind = "CompilerArtifact" /\ IsSome(msgs[j].executable))
    ELSE 0

RECURSIVE ReverseScan(_, _)
\* the scan of get_metadata run forwards: the first qualifying message wins
ForwardScan(msgs, n) == FirstFromStart(msgs, n)

\* the loop of get_metadata: scanning from index n down, the index of the first
\* CompilerArtifact with an executable, 0 when there is none
ReverseScan(msgs, n) ==
    IF n = 0 THEN 0
    ELSE IF msgs[n].kind = "CompilerArtifact" /\ IsSome(msgs[n].executable) THEN n
    ELSE ReverseScan(msgs, n - 1)

\* get_metadata without the exit: with no executable found it goes on with a
\* default target path
GetMetadataNoExit(p, msgs, metadata_ok) ==
    IF ~metadata_ok THEN With(p, Panicked)
    ELSE LET found == ReverseScan(msgs, Len(msgs))
         IN  IF found = 0
             THEN With(Eprintln(p, "No executable found from build command output!"),
                       Returned(Some([target_path |-> EXE_A])))
             ELSE With(p, Returned(Some([target_path |-> Unwrap(msgs[found].executable)])))

\* get_metadata: metadata_ok is whether `cargo metadata` ran and knows the package
get_metadata(p, msgs, metadata_ok) ==
    IF ~metadata_ok THEN With(p, Panicked)
    ELSE LET found == ReverseScan(msgs, Len(msgs))
         IN  IF found = 0
             THEN With(Eprintln(p, "No executable found from build command output!"),
                       Exited(1))
             ELSE With(p, Returned(Some([target_path |-> Unwrap(msgs[found].executable)])))

\* CargoCmd::run_callback: w is what the world does to the calls it makes
run_callback(p, i, cmd, msgs, w) ==
    LET package == should_build_ndsx(p, cmd)
        meta == IF package.val
                THEN get_metadata(Eprintln(package.p, "Getting metadata"), msgs, w.metadata_ok)
                ELSE With(package.p, Returned(None))
    IN  IF meta.val.tag # "Return" THEN meta
        ELSE LET config == meta.val.val
             IN  CASE cmd.kind = "Build" -> build_callback(meta.p, cmd, config, w.pkg)
                   [] cmd.kind = "Run" ->
                        run_callback_of_run(meta.p, i, cmd, config, w.pkg, w.dep, w.probe)
                   [] cmd.kind = "Test" ->
                        test_callback(meta.p, i, cmd, config, w.pkg, w.dep, w.probe)
                   [] cmd.kind \in {"New", "Init"} -> scaffold_callback(meta.p, cmd, w.fs_ok)
                   [] OTHER -> With(meta.p, Returned(None))

\* what spawning cargo and reading its output does: the spawn fails, the stream
\* does not parse, or it yields messages and an exit status
CargoOutcome(run, msgs) == [run |-> run, messages |-> msgs]

\* run_cargo after make_cargo_command: print the command when verbose, spawn
\* it, read its messages and wait for it
SpawnAndRead(made, cmd, out) ==
    LET command == [made.val EXCEPT !.status = out.run]
        p1 == IF cmd.verbose THEN print_command(made.p, command) ELSE made.p
        p2 == [p1 EXCEPT !.spawned = Append(@, command)]
    IN  IF out.run \in {"spawnfail", "badstream"} THEN With(p2, Panicked)
        ELSE With(p2, Returned(Some([status |-> out.run, messages |-> out.messages])))

\* run_cargo: the process afterwards and (status, messages), or the panic
run_cargo(p, i, cmd, message_format, probe, out) ==
    SpawnAndRead(make_cargo_command(p, i, cmd, message_format, probe), cmd, out)

-----------------------------------------------------------------------------
(* SpecArgs: the argument functions applied to every bounded argument list *)

InitArgs ==
    /\ cmds \in [{1} -> CmdsOver(SeqsUpTo(Tokens, MaxArgs), {FALSE}, {<<>>})]
    /\ HAS_RUNNER = None
    /\ environ = [BLOCKSDS |-> None, CARGO |-> None, RUSTFLAGS |-> None,
                  RUSTDOCFLAGS |-> None]
    /\ spawned = <<>>
    /\ stderr = <<>>
    /\ messages = <<>>
    /\ ret = NoCall
    /\ pc = "args"
    /\ exit_code = None
    /\ calls = 0
    /\ answers = [i \in {1} |-> {}]

\* cmd.extract_message_format() on the parsed command
ExtractMessageFormat ==
    /\ pc = "args" /\ ret.op = "none"
    /\ LET r == extract_message_format(cmds[1])
       IN  /\ cmds' = [cmds EXCEPT ![1] = r.cmd]
           /\ ret' = Call("extract_message_format", 1, cmds[1], r.res)
    /\ UNCHANGED <<HAS_RUNNER, environ, spawned, stderr, messages, pc,
                   exit_code, calls, answers>>

\* passthrough.split_args() on the command's RemainingArgs
SplitArgs ==
    /\ pc = "args" /\ ret.op = "none"
    /\ cmds[1].kind # "Passthrough"
    /\ ret' = Call("split_args", 1, cmds[1], split_args(cmds[1].args))
    /\ UNCHANGED <<cmds, HAS_RUNNER, environ, spawned, stderr, messages, pc,
                   exit_code, calls, answers>>

NextArgs == ExtractMessageFormat \/ SplitArgs

SpecArgs == InitArgs /\ [][NextArgs]_vars

-----------------------------------------------------------------------------
(* SpecApi: two commands in one process, their methods called in any order *)

Instances == {1, 2}
ApiArgs == {<<FOO, DELIM, BAR>>}
Formats == {None, Some(JSON)}

SetProcess(p) ==
    /\ HAS_RUNNER' = p.has_runner
    /\ environ' = p.environ
    /\ spawned' = p.spawned
    /\ stderr' = p.stderr
    /\ answers' = p.answers

InitApi ==
    /\ cmds \in [Instances -> CmdsOver(ApiArgs, {FALSE}, ConfigLists)]
    /\ HAS_RUNNER = None
    /\ environ = [BLOCKSDS |-> None, CARGO |-> None, RUSTFLAGS |-> None,
                  RUSTDOCFLAGS |-> None]
    /\ spawned = <<>>
    /\ stderr = <<>>
    /\ messages = <<>>
    /\ ret = NoCall
    /\ pc = "api"
    /\ exit_code = None
    /\ calls = 0
    /\ answers = [i \in Instances |-> {}]

ApiCall(op, i, r) ==
    /\ SetProcess(r.p)
    /\ ret' = Call(op, i, cmds[i], r.val)
    /\ calls' = calls + 1
    /\ UNCHANGED <<cmds, messages, pc, exit_code>>

CallUseCustomRunner(i) ==
    /\ pc = "api" /\ calls < MaxCalls
    /\ cmds[i].kind \in {"Run", "Test"}
    /\ \E outcome \in ProbeOutcomes :
         ApiCall("use_custom_runner", i, use_custom_runner(Process, i, cmds[i], outcome))

CallSubcommandName(i) ==
    /\ pc = "api" /\ calls < MaxCalls
    /\ \E outcome \in ProbeOutcomes :
         ApiCall("subcommand_name", i, subcommand_name(Process, i, cmds[i], outcome))

CallShouldBuildNdsx(i) ==
    /\ pc = "api" /\ calls < MaxCalls
    /\ ApiCall("should_build_ndsx", i, should_build_ndsx(Process, cmds[i]))

CallShouldLinkToDevice(i) ==
    /\ pc = "api" /\ calls < MaxCalls
    /\ \E outcome \in ProbeOutcomes :
         ApiCall("should_link_to_device", i,
                 should_link_to_device(Process, i, cmds[i], outcome))

CallMakeCargoCommand(i) ==
    /\ pc = "api" /\ calls < MaxCalls
    /\ \E format \in Formats, outcome \in ProbeOutcomes :
         \E r \in {make_cargo_command(Process, i, cmds[i], format, outcome)} :
             /\ SetProcess(r.p)
             /\ ret' = [Call("make_cargo_command", i, cmds[i], r.val) EXCEPT !.arg = format]
             /\ calls' = calls + 1
             /\ UNCHANGED <<cmds, messages, pc, exit_code>>

NextApi ==
    \E i \in Instances :
        \/ CallUseCustomRunner(i)
        \/ CallSubcommandName(i)
        \/ CallShouldBuildNdsx(i)
        \/ CallShouldLinkToDevice(i)
        \/ CallMakeCargoCommand(i)

SpecApi == InitApi /\ [][NextApi]_vars

-----------------------------------------------------------------------------
(* SpecMeta: get_metadata applied to every bounded sequence of build messages *)

InitMeta ==
    /\ cmds = [i \in {1} |-> Cmd("Build", <<>>, FALSE, FALSE, FALSE, <<>>)]
    /\ HAS_RUNNER = None
    /\ environ = [BLOCKSDS |-> None, CARGO |-> None, RUSTFLAGS |-> None,
                  RUSTDOCFLAGS |-> None]
    /\ spawned = <<>>
    /\ stderr = <<>>
    /\ messages \in SeqsUpTo(Messages, MaxMsgs)
    /\ ret = NoCall
    /\ pc = "meta"
    /\ exit_code = None
    /\ calls = 0
    /\ answers = [i \in {1} |-> {}]

GetMetadata ==
    /\ pc = "meta" /\ ret.op = "none"
    /\ \E metadata_ok \in BOOLEAN :
         LET r == get_metadata(Process, messages, metadata_ok)
         IN  /\ SetProcess(r.p)
             /\ ret' = Call("get_metadata", 1, messages, r.val)
             /\ exit_code' = IF r.val.tag = "Return" THEN None ELSE Some(r.val.code)
             /\ pc' = IF r.val.tag = "Return" THEN "meta" ELSE "exited"
    /\ UNCHANGED <<cmds, messages, calls>>

NextMeta == GetMetadata

SpecMeta == InitMeta /\ [][NextMeta]_vars

-----------------------------------------------------------------------------
(* Spec: one invocation of the program.  main extracts the message format,   *)
(* runs cargo, stops with cargo's exit code when that is not zero, and runs  *)
(* the post-build callback.                                                  *)

PipeArgs ==
    {<<>>, <<FOO, DELIM, BAR>>, <<LIB>>,
     <<MESSAGE_FORMAT \o <<EQ>> \o JSON, FOO>>,
     <<MESSAGE_FORMAT, BAR>>,
     <<FOO, MESSAGE_FORMAT>>}

DEVICE == "192.168.0.2"
PipeCmds ==
    CmdsOver(PipeArgs, {FALSE}, ConfigLists)
    \cup CmdsOver({<<>>, <<FOO, DELIM, BAR>>}, {TRUE}, {<<>>})
    \cup {[c EXCEPT !.address = Some(DEVICE)] :
            c \in {x \in CmdsOver({<<>>}, {FALSE}, {<<>>}) : x.kind \in {"Run", "Test"}}}

PipeMessages ==
    {<<>>, <<OtherMessage>>,
     <<Artifact(Some(EXE_A)), OtherMessage>>,
     <<Artifact(Some(EXE_A)), Artifact(Some(EXE_B)), Artifact(None), OtherMessage>>}

CargoOutcomes ==
    {CargoOutcome(r, <<>>) : r \in {"spawnfail", "badstream"}}
    \cup {CargoOutcome(r, m) : r \in {"zero", "exit2", "signal"}, m \in PipeMessages}

\* what the world does to the calls of one run_callback: fs_ok matters to the
\* scaffolding callbacks only, the other fields to the packaging ones only
CallbackWorlds ==
    [metadata_ok : BOOLEAN, pkg : PackagingWorlds, dep : DeployOutcomes,
     probe : ProbeOutcomes, fs_ok : {TRUE}]
    \cup {[metadata_ok |-> TRUE, pkg |-> w, dep |-> "zero", probe |-> "zero",
           fs_ok |-> FALSE] : w \in {x \in PackagingWorlds : x.tool = "zero" /\ x.romfs = "dir"}}

Init ==
    /\ cmds \in [{1} -> PipeCmds]
    /\ HAS_RUNNER = None
    /\ environ \in [BLOCKSDS : {None, Some("/sdk")}, CARGO : {None}, RUSTFLAGS : {None},
                    RUSTDOCFLAGS : {None}]
    /\ spawned = <<>>
    /\ stderr = <<>>
    /\ messages = <<>>
    /\ ret = NoCall
    /\ pc = "start"
    /\ exit_code = None
    /\ calls = 0
    /\ answers = [i \in {1} |-> {}]

\* process::exit(code), or the panic that ends the process with code 101
Terminate(code) == exit_code' = Some(code) /\ pc' = "exited"

\* main: input.cmd.extract_message_format(), and exit(1) with the message on Err
MainExtract ==
    /\ pc = "start"
    /\ LET r == extract_message_format(cmds[1])
       IN  /\ cmds' = [cmds EXCEPT ![1] = r.cmd]
           /\ ret' = Call("extract_message_format", 1, cmds[1], r.res)
           /\ CASE r.res.tag = "Ok" ->
                    /\ pc' = "extracted"
                    /\ UNCHANGED <<stderr, exit_code>>
                [] r.res.tag = "Err" ->
                    /\ stderr' = Append(stderr, r.res.msg)
                    /\ Terminate(1)
                [] r.res.tag = "Panic" ->
                    /\ Terminate(101)
                    /\ UNCHANGED stderr
    /\ UNCHANGED <<HAS_RUNNER, environ, spawned, messages, calls, answers>>

\* main: run_cargo(&input, message_format), and exit with cargo's code when
\* cargo did not succeed
MainRunCargo ==
    /\ pc = "extracted"
    /\ \E probe \in ProbeOutcomes, out \in CargoOutcomes :
         \E r \in {run_cargo(Process, 1, cmds[1], ret.out.val, probe, out)} :
             /\ SetProcess(r.p)
             /\ ret' = [Call("run_cargo", 1, cmds[1], r.val) EXCEPT !.arg = ret.out.val]
             /\ IF r.val.tag = "Panic"
                THEN Terminate(101) /\ UNCHANGED messages
                ELSE /\ messages' = out.messages
                     /\ IF out.run = "zero"
                        THEN pc' = "built" /\ UNCHANGED exit_code
                        ELSE Terminate(CodeOr1(out.run))
    /\ UNCHANGED <<cmds, calls>>

\* main: input.cmd.run_callback(&messages), then the normal end of main
MainRunCallback ==
    /\ pc = "built"
    /\ \E w \in CallbackWorlds :
         \E r \in {run_callback(Process, 1, cmds[1], messages, w)},
            b \in {should_build_ndsx(Process, cmds[1]).val} :
             /\ SetProcess(r.p)
             /\ ret' = Call("run_callback", 1, cmds[1],
                            [should_build_ndsx |-> b, end |-> r.val])
             /\ IF r.val.tag = "Return"
                THEN exit_code' = Some(0) /\ pc' = "done"
                ELSE Terminate(r.val.code)
    /\ UNCHANGED <<cmds, messages, calls>>

Next == MainExtract \/ MainRunCargo \/ MainRunCallback

Spec == Init /\ [][Next]_vars

-----------------------------------------------------------------------------
(* SpecCallback: CargoCmd::run_callback called on the messages of a build    *)
(* that succeeded, in a process that has not asked for the runner yet.       *)

\* the options of Run as clap parses them: each one given or not (the retry
\* count is kept as its decimal rendering)
ARGV0 == "app"
RETRIES == "3"
RunOptions ==
    [address : {None, Some(DEVICE)}, argv0 : {None, Some(ARGV0)}, server : BOOLEAN,
     retries : {None, Some(RETRIES)}]

CallbackCmds ==
    PipeCmds
    \cup {[c EXCEPT !.address = o.address, !.argv0 = o.argv0, !.server = o.server,
                    !.retries = o.retries] :
            c \in {x \in CmdsOver({<<>>}, {FALSE}, {<<>>}) :
                      x.kind = "Run" \/ (x.kind = "Test" /\ ~x.no_run /\ ~x.doc)},
            o \in RunOptions}

InitCallback ==
    /\ cmds \in [{1} -> CallbackCmds]
    /\ HAS_RUNNER = None
    /\ environ = [BLOCKSDS |-> None, CARGO |-> None, RUSTFLAGS |-> None,
                  RUSTDOCFLAGS |-> None]
    /\ spawned = <<>>
    /\ stderr = <<>>
    /\ messages \in PipeMessages
    /\ ret = NoCall
    /\ pc = "callback"
    /\ exit_code = None
    /\ calls = 0
    /\ answers = [i \in {1} |-> {}]

\* run_callback returns to its caller, or the process ends inside it:
\* process::exit(code) in get_metadata, build_nds and link, or a panic
CallRunCallback ==
    /\ pc = "callback"
    /\ \E w \in CallbackWorlds :
         \E r \in {run_callback(Process, 1, cmds[1], messages, w)} :
             /\ SetProcess(r.p)
             /\ ret' = Call("run_callback", 1, cmds[1], r.val)
             /\ IF r.val.tag = "Return"
                THEN pc' = "returned" /\ UNCHANGED exit_code
                ELSE Terminate(r.val.code)
    /\ calls' = calls + 1
    /\ UNCHANGED <<cmds, messages>>

NextCallback == CallRunCallback

SpecCallback == InitCallback /\ [][NextCallback]_vars

-----------------------------------------------------------------------------
(* SpecSynth: extract_message_format, then make_cargo_command with the       *)
(* format it returned, as run_cargo's caller composes them, on every bounded *)
(* argument list.                                                            *)

InitSynth ==
    /\ cmds \in [{1} -> CmdsOver(SeqsUpTo(Tokens, MaxArgs), {FALSE}, {<<>>})]
    /\ HAS_RUNNER = None
    /\ environ = [BLOCKSDS |-> None, CARGO |-> None, RUSTFLAGS |-> None,
                  RUSTDOCFLAGS |-> None]
    /\ spawned = <<>>
    /\ stderr = <<>>
    /\ messages = <<>>
    /\ ret = NoCall
    /\ pc = "synth"
    /\ exit_code = None
    /\ calls = 0
    /\ answers = [i \in {1} |-> {}]

\* input.cmd.extract_message_format(): the list is consumed in place; only an
\* Ok result is passed on
SynthExtract ==
    /\ pc = "synth"
    /\ \E r \in {extract_message_format(cmds[1])} :
         /\ cmds' = [cmds EXCEPT ![1] = r.cmd]
         /\ ret' = Call("extract_message_format", 1, cmds[1], r.res)
         /\ pc' = IF r.res.tag = "Ok" THEN "extracted" ELSE "failed"
    /\ UNCHANGED <<HAS_RUNNER, environ, spawned, stderr, messages,
                   exit_code, calls, answers>>

\* make_cargo_command(&input, &message_format) on what extraction left
SynthMakeCargoCommand ==
    /\ pc = "extracted"
    /\ \E outcome \in ProbeOutcomes :
         \E r \in {make_cargo_command(Process, 1, cmds[1], ret.out.val, outcome)} :
             /\ SetProcess(r.p)
             /\ ret' = [Call("make_cargo_command", 1, cmds[1], r.val)
                          EXCEPT !.arg = ret.out.val]
    /\ pc' = "made"
    /\ UNCHANGED <<cmds, messages, exit_code, calls>>

NextSynth == SynthExtract \/ SynthMakeCargoCommand

SpecSynth == InitSynth /\ [][NextSynth]_vars

-----------------------------------------------------------------------------
(* Claims about the argument functions *)

\* the value a flag token at position p of list a carries: the text after its
\* first "=", or else the token that follows it (None when nothing follows)
HasEq(tok) == \E k \in 1..Len(tok) : tok[k] = EQ
IsFlag(tok) == StartsWith(tok, MESSAGE_FORMAT)
IsFirstFlag(a, p) == IsFlag(a[p]) /\ \A q \in 1..(p - 1) : ~IsFlag(a[q])
FlagValue(a, p) ==
    IF HasEq(a[p])
    THEN LET k == CHOOSE k \in 1..Len(a[p]) :
                    a[p][k] = EQ /\ \A m \in 1..(k - 1) : a[p][m] # EQ
         IN  Some(SubSeq(a[p], k + 1, Len(a[p])))
    ELSE IF p < Len(a) THEN Some(a[p + 1]) ELSE None
\* the number of tokens the flag at position p consumes
FlagWidth(a, p) == IF HasEq(a[p]) THEN 1 ELSE 2
Without(a, p, n) == SubSeq(a, 1, p - 1) \o SubSeq(a, p + n, Len(a))
Extracted == ret.op = "extract_message_format"

\* C1 as stated: whenever the list contains a message-format flag (in either
\* shape) whose value begins with json, extraction returns Some(value) and removes
\* exactly that flag's tokens.
C1_AnyJsonFlagExtracted ==
    Extracted =>
        LET a == ret.input.args
        IN  \A p \in 1..Len(a) :
                (IsFlag(a[p]) /\ IsSome(FlagValue(a, p))
                    /\ StartsWith(Unwrap(FlagValue(a, p)), JSON))
                => /\ ret.out = Ok(FlagValue(a, p))
                   /\ cmds[1].args = Without(a, p, FlagWidth(a, p))

\* C1 amended: when the FIRST message-format flag of the list carries a value
\* beginning with json (--message-format=VALUE or --message-format VALUE),
\* extraction returns Some(VALUE) unchanged and removes exactly the consumed
\* tokens (one in the = shape, two in the space shape); every other token stays,
\* in its original order.
C1_FirstJsonFlagExtracted ==
    Extracted =>
        LET a == ret.input.args
        IN  \A p \in 1..Len(a) :
                (IsFirstFlag(a, p) /\ IsSome(FlagValue(a, p))
                    /\ StartsWith(Unwrap(FlagValue(a, p)), JSON))
                => /\ ret.out = Ok(FlagValue(a, p))
                   /\ cmds[1].args = Without(a, p, FlagWidth(a, p))
                   /\ Len(cmds[1].args) = Len(a) - FlagWidth(a, p)

C1_Witness ==
    /\ Extracted
    /\ ret.input.args = <<FOO, MESSAGE_FORMAT, JSON>>
    /\ ret.out = Ok(Some(JSON))
    /\ cmds[1].args = <<FOO>>

\* C2: when the first message-format flag carries a value that does not begin
\* with json, in either shape, extraction returns the Err and never Ok.
C2_NonJsonRejected ==
    Extracted =>
        LET a == ret.input.args
        IN  \A p \in 1..Len(a) :
                (IsFirstFlag(a, p) /\ IsSome(FlagValue(a, p))
                    /\ ~StartsWith(Unwrap(FlagValue(a, p)), JSON))
                => ret.out.tag = "Err" /\ ret.out.msg = UNSUPPORTED

C2_Witness ==
    /\ Extracted
    /\ ret.input.args = <<MESSAGE_FORMAT, BAR, MESSAGE_FORMAT \o <<EQ>> \o JSON>>
    /\ ret.out.tag = "Err"

\* C3: with no message-format flag in the list, extraction leaves the list
\* unchanged and returns None, except for Test with doc set: Some("human").
C3_NoFlagUnchanged ==
    Extracted =>
        LET a == ret.input.args
        IN  (\A p \in 1..Len(a) : ~IsFlag(a[p]))
            => /\ cmds[1].args = a
               /\ cmds[1] = ret.input
               /\ ret.out = IF ret.input.kind = "Test" /\ ret.input.doc
                            THEN Ok(Some(HUMAN)) ELSE Ok(None)

C3_Witness ==
    /\ Extracted
    /\ ret.input.kind = "Test" /\ ret.input.doc
    /\ ret.input.args = <<FOO, DELIM, JSON>>
    /\ ret.out = Ok(Some(HUMAN))
    /\ cmds[1].args = <<FOO, DELIM, JSON>>

\* C4: split_args partitions the list at the first "--": forwarded is the prefix
\* before it and holds no "--", executable is the suffix after it, and
\* forwarded ++ ["--"] ++ executable is the input; with no "--", forwarded is
\* the whole input and executable is empty.
C4_SplitPartitions ==
    ret.op = "split_args" =>
        LET a == ret.input.args
            forwarded == ret.out[1]
            executable == ret.out[2]
        IN  IF \E i \in 1..Len(a) : a[i] = DELIM
            THEN /\ forwarded \o <<DELIM>> \o executable = a
                 /\ \A i \in 1..Len(forwarded) : forwarded[i] # DELIM
            ELSE forwarded = a /\ executable = <<>>

C4_Witness ==
    /\ ret.op = "split_args"
    /\ ret.input.args = <<FOO, DELIM, DELIM>>
    /\ ret.out = <<(<<FOO>>), (<<DELIM>>)>>

\* C22: extract_message_format is total: on every argument list it returns
\* Ok(Some(format)), Ok(None) or the unsupported-format Err and never aborts,
\* also when a flag token without "=" is the last token of the list.
C22_ExtractionTotal ==
    Extracted =>
        /\ ret.out.tag \in {"Ok", "Err"}
        /\ ret.out.tag = "Err" => ret.out.msg = UNSUPPORTED

\* C19: a message-format token after the first "--" is an executable argument:
\* when no token in front of the first "--" is a message-format flag, extraction
\* removes nothing, returns no format taken from the list and no error.
C19_ExecutableArgsUntouched ==
    Extracted =>
        LET a == ret.input.args
            d == DelimPosition(a)
        IN  (d > 0 /\ \A q \in 1..(d - 1) : ~IsFlag(a[q]))
            => /\ cmds[1].args = a
               /\ ret.out = IF ret.input.kind = "Test" /\ ret.input.doc
                            THEN Ok(Some(HUMAN)) ELSE Ok(None)

-----------------------------------------------------------------------------
(* Claims about the command's decisions and the runner state *)

RunnerState == HAS_RUNNER
Probes == {n \in 1..Len(spawned) : spawned[n].role = "probe"}

\* C5: should_link_to_device is true exactly when the intent is Run, or Test
\* with no_run unset, and the runner state says no custom runner is configured;
\* so it is false for Test with no_run set whatever the runner state, and for
\* Build, New, Init and Passthrough.
C5_ShouldDeploy ==
    ret.op = "should_link_to_device" =>
        LET cmd == ret.input
        IN  /\ ret.out = (/\ cmd.kind = "Run" \/ (cmd.kind = "Test" /\ ~cmd.no_run)
                          /\ RunnerState = Some(FALSE))
            /\ (cmd.kind = "Test" /\ cmd.no_run) => ret.out = FALSE
            /\ cmd.kind \in {"Build", "New", "Init", "Passthrough"} => ret.out = FALSE

C5_Witness ==
    /\ ret.op = "should_link_to_device"
    /\ ret.input.kind = "Test" /\ ret.input.no_run
    /\ RunnerState = Some(FALSE)
    /\ ret.out = FALSE

\* C8: subcommand_name is build for Build, test for Test, new for New, init for
\* Init, the first element of the vector for Passthrough, and for Run it is run
\* exactly when the runner state says a custom runner is configured, else build.
C8_SubcommandName ==
    ret.op = "subcommand_name" =>
        LET cmd == ret.input
        IN  ret.out = CASE cmd.kind = "Build" -> SUB_BUILD
                        [] cmd.kind = "Test" -> SUB_TEST
                        [] cmd.kind = "New" -> SUB_NEW
                        [] cmd.kind = "Init" -> SUB_INIT
                        [] cmd.kind = "Passthrough" -> Head(cmd.args)
                        [] cmd.kind = "Run" ->
                            IF RunnerState = Some(TRUE) THEN SUB_RUN ELSE SUB_BUILD

C8_Witness ==
    /\ ret.op = "subcommand_name"
    /\ ret.input.kind = "Run"
    /\ RunnerState = Some(FALSE)
    /\ ret.out = SUB_BUILD

\* C9: over any sequence of queries the probe child is spawned at most once and
\* all queries of use_custom_runner on one instance return the same boolean;
\* for Run, subcommand_name is run exactly when should_link_to_device is false,
\* exactly when the answer is TRUE, and make_cargo_command appends the
\* separator in exactly that case too.
C9_RunnerStable ==
    /\ Cardinality(Probes) <= 1
    /\ \A i \in DOMAIN answers : Cardinality(answers[i]) <= 1
    /\ (ret.op \in {"subcommand_name", "should_link_to_device", "make_cargo_command",
                     "use_custom_runner"}
        /\ ret.input.kind = "Run")
       => LET configured == answers[ret.inst] = {TRUE}
          IN  /\ answers[ret.inst] # {}
              /\ ret.op = "use_custom_runner" => (ret.out <=> configured)
              /\ ret.op = "subcommand_name" => (ret.out = SUB_RUN <=> configured)
              /\ ret.op = "should_link_to_device" => (ret.out = FALSE <=> configured)
              /\ ret.op = "make_cargo_command" =>
                    /\ (\E n \in 1..Len(ret.out.argv) : ret.out.argv[n] = DELIM)
                        <=> configured
                    /\ ret.out.argv[Len(ret.input.config) + 1] = SUB_RUN <=> configured

C9_Witness ==
    /\ calls = 3
    /\ ret.op = "make_cargo_command" /\ ret.inst = 1 /\ ret.input.kind = "Run"
    /\ answers[1] = {TRUE}
    /\ Cardinality(Probes) = 1
    /\ ret.out.argv = <<SUB_RUN, ARG_TARGET, TARGET_JSON_PATH, ARG_Z, BUILD_STD,
                        MESSAGE_FORMAT, DEFAULT_MESSAGE_FORMAT, FOO, DELIM, BAR>>

\* C11: the runner probe never aborts the command: a probe that exited with
\* status zero makes the runner state "configured", one that exited non-zero or
\* could not be spawned makes it "not configured", and in all three cases
\* use_custom_runner returns that boolean and the process goes on.
C11_ProbeNeverAborts ==
    /\ \A n \in Probes :
          /\ spawned[n].status \in ProbeOutcomes
          /\ spawned[n].status = "zero" => RunnerState = Some(TRUE)
          /\ spawned[n].status \in {"nonzero", "spawnfail"} => RunnerState = Some(FALSE)
    /\ ret.op = "use_custom_runner" =>
          /\ ret.out \in BOOLEAN
          /\ RunnerState = Some(ret.out)
          /\ Probes # {}
          /\ pc = "api" /\ exit_code = None

\* the probe could not be spawned and use_custom_runner returned false
C11_Witness ==
    /\ ret.op = "use_custom_runner"
    /\ \E n \in Probes : spawned[n].status = "spawnfail" /\ spawned[n].owner = ret.inst
    /\ ret.out = FALSE
    /\ exit_code = None

\* C10: the memoized runner state belongs to the instance: every instance that
\* has been queried had its own probe spawned, and the answers it got are that
\* probe's result, never another instance's.
C10_RunnerStatePerInstance ==
    \A i \in DOMAIN answers :
        answers[i] # {} =>
            \E n \in Probes :
                /\ spawned[n].owner = i
                /\ answers[i] = {spawned[n].status = "zero"}

\* cargo's configuration introspection: the subcommand `config get <key>`
SUB_CONFIG == <<"c", "o", "n", "f", "i", "g">>
SUB_GET == <<"g", "e", "t">>
\* a relative path without its leading "./"
StripDotSlash(path) ==
    IF Len(path) >= 2 /\ SubSeq(path, 1, 2) = <<".", "/">>
    THEN SubSeq(path, 3, Len(path)) ELSE path
Follows(argv, flag, value) ==
    \E j \in 1..(Len(argv) - 1) : argv[j] = flag /\ argv[j + 1] = value

\* the probe is configured like the real build: the owner's --config
\* overrides first, the same target file, the same build-std flag, and both
\* output streams suppressed
ProbeConfiguredAsBuild(probe, cmd) ==
    /\ Len(probe.argv) >= Len(cmd.config)
    /\ SubSeq(probe.argv, 1, Len(cmd.config))
          = [j \in 1..Len(cmd.config) |-> ARG_CONFIG_EQ \o cmd.config[j]]
    /\ \E j \in 1..(Len(probe.argv) - 1) :
          /\ probe.argv[j] = ARG_TARGET
          /\ StripDotSlash(probe.argv[j + 1]) = TARGET_JSON_PATH
    /\ Follows(probe.argv, ARG_Z, BUILD_STD)
    /\ probe.stdout = "null" /\ probe.stderr = "null"

\* C21: the argument vector of every runner probe asks cargo only for
\* configuration introspection (config get of the runner key) and is otherwise
\* configured like the real build of the same command: the same --config
\* overrides, target specification and build-std flag, stdout and stderr null.
C21_ProbeIsIntrospection ==
    \A n \in Probes :
        /\ ProbeConfiguredAsBuild(spawned[n], cmds[spawned[n].owner])
        /\ Follows(spawned[n].argv, SUB_CONFIG, SUB_GET)

\* C20: no operation changes the environment of the process itself: RUSTFLAGS
\* and RUSTDOCFLAGS are set in the environment overlay of the child command
\* only, so every step leaves the parent environment as it was.
C20_ParentEnvUnchanged == [][environ' = environ]_vars

-----------------------------------------------------------------------------
(* Claims about the synthesized cargo command *)

Occurrences(seq, x) == Cardinality({n \in DOMAIN seq : seq[n] = x})
\* the arguments of an argument vector after its first n
After(seq, n) == SubSeq(seq, n + 1, Len(seq))
\* the --config arguments come first, then the subcommand name
NameAt(cmd) == Len(cmd.config) + 1
CompileFlags(format) ==
    <<ARG_TARGET, TARGET_JSON_PATH, ARG_Z, BUILD_STD, MESSAGE_FORMAT, format>>

SeparatorAppended(cmd, argv) ==
    LET tail == <<DELIM>> \o exe_args(cmd.args)
    IN  /\ Len(argv) >= Len(tail)
        /\ After(argv, Len(argv) - Len(tail)) = tail

\* C13: make_cargo_command appends "--" and the executable arguments exactly
\* when the intent is Run, or Test with no_run unset, and a custom runner is
\* configured; for Test with no_run set, and for every intent without a custom
\* runner, the vector holds no separator and no executable argument.  (A
\* Passthrough forwards the user's own vector and is left out.)
C13_SeparatorOnlyWhenRun ==
    (ret.op = "make_cargo_command" /\ ret.input.kind # "Passthrough") =>
        LET cmd == ret.input
            argv == ret.out.argv
        IN  IF /\ cmd.kind = "Run" \/ (cmd.kind = "Test" /\ ~cmd.no_run)
               /\ RunnerState = Some(TRUE)
            THEN SeparatorAppended(cmd, argv) /\ Occurrences(argv, DELIM) = 1
            ELSE Occurrences(argv, DELIM) = 0 /\ Occurrences(argv, BAR) = 0

\* the forwarded arguments of a synthesized Test command: what follows the six
\* compile arguments, without the separator and executable arguments if any
Forwarded(cmd, argv) ==
    LET rest == After(argv, NameAt(cmd) + 6)
    IN  IF SeparatorAppended(cmd, argv)
        THEN SubSeq(rest, 1, Len(rest) - 1 - Len(exe_args(cmd.args)))
        ELSE rest

\* C14: for a Test, the forwarded arguments are the user's cargo arguments
\* followed by --doc -Z doctest-xcompile and no --no-run when doc-tests are
\* requested; otherwise --no-run is appended exactly unless a custom runner is
\* configured and no_run is unset.
C14_TestCargoArgs ==
    (ret.op = "make_cargo_command" /\ ret.input.kind = "Test") =>
        LET cmd == ret.input
            forwarded == Forwarded(cmd, ret.out.argv)
            user == remaining_cargo_args(cmd.args)
        IN  IF cmd.doc
            THEN /\ forwarded = user \o <<ARG_DOC, ARG_Z, DOCTEST_XCOMPILE>>
                 /\ Occurrences(forwarded, ARG_NO_RUN) = 0
            ELSE IF RunnerState = Some(TRUE) /\ ~cmd.no_run
                 THEN forwarded = user
                 ELSE forwarded = Append(user, ARG_NO_RUN)

\* a Test to be run under a custom runner: cargo runs the tests, no --no-run
C14_Witness ==
    /\ ret.op = "make_cargo_command"
    /\ ret.input.kind = "Test" /\ ~ret.input.doc /\ ~ret.input.no_run
    /\ ret.input.config = <<>>
    /\ RunnerState = Some(TRUE)
    /\ ret.out.argv = <<SUB_TEST>> \o CompileFlags(DEFAULT_MESSAGE_FORMAT)
                          \o <<FOO, DELIM, BAR>>

\* the arguments addressed to cargo: those in front of the first "--"
ForCargo(argv) ==
    IF DelimPosition(argv) = 0 THEN argv ELSE SubSeq(argv, 1, DelimPosition(argv) - 1)
FlagCount(seq) == Cardinality({n \in DOMAIN seq : IsFlag(seq[n])})

\* C23: for Build, Run, Test and Passthrough, when extraction succeeded, the
\* vector make_cargo_command builds from what extraction left holds exactly one
\* --message-format flag among the arguments in front of the first "--": the
\* synthesized one, and never a flag of the user beside it.
C23_OneMessageFormatFlag ==
    (/\ pc = "made"
     /\ ret.op = "make_cargo_command"
     /\ ret.input.kind \in {"Build", "Run", "Test", "Passthrough"})
    => FlagCount(ForCargo(ret.out.argv)) = 1

-----------------------------------------------------------------------------
(* Claims about the post-build stage *)

NO_NDSX == "Documentation tests requested, no ndsx will be built"
Emitted(line) == Cardinality({n \in DOMAIN stderr : stderr[n] = line})
DocTest(cmd) == cmd.kind = "Test" /\ cmd.doc
Finished == pc \in {"done", "exited"}

\* C6 as stated: should_build_ndsx is true for Build, Run and Test without
\* doc-tests and false otherwise, and every invocation with a doc-test intent
\* that has ended has emitted the no-ndsx diagnostic exactly once.
C6_DiagnosticOncePerInvocation ==
    /\ ret.op = "run_callback" =>
            (ret.out.should_build_ndsx
                <=> (ret.input.kind \in {"Build", "Run"}
                     \/ (ret.input.kind = "Test" /\ ~ret.input.doc)))
    /\ (Finished /\ DocTest(cmds[1])) => Emitted(NO_NDSX) = 1

\* C6: should_build_ndsx is true for Build, Run and Test without doc-tests and
\* false for New, Init, Passthrough and every Test with doc-tests; packaging
\* (the "Getting metadata" step) is entered exactly when it is true; the
\* no-ndsx diagnostic is emitted only by the post-build stage: exactly once
\* when that stage has run for a doc-test intent, and never otherwise, so an
\* invocation that ends before that stage emits it zero times.
C6_DiagnosticOncePerCallback ==
    /\ ret.op = "run_callback" =>
            /\ ret.out.should_build_ndsx
                  <=> (ret.input.kind \in {"Build", "Run"}
                       \/ (ret.input.kind = "Test" /\ ~ret.input.doc))
            /\ ret.input.kind \in {"New", "Init", "Passthrough"}
                  => ~ret.out.should_build_ndsx
            /\ DocTest(ret.input) => ~ret.out.should_build_ndsx
            /\ Emitted("Getting metadata") = IF ret.out.should_build_ndsx THEN 1 ELSE 0
    /\ Emitted(NO_NDSX) = IF ret.op = "run_callback" /\ DocTest(cmds[1]) THEN 1 ELSE 0
    /\ (pc = "done" /\ DocTest(cmds[1])) => Emitted(NO_NDSX) = 1

\* a doc-test invocation that ran to its end and emitted the diagnostic once
C6_Witness ==
    /\ pc = "done"
    /\ ret.op = "run_callback" /\ DocTest(ret.input)
    /\ ~ret.out.should_build_ndsx
    /\ Emitted(NO_NDSX) = 1
    /\ ret.out.end = Returned(None)

Spawns(role) == {n \in 1..Len(spawned) : spawned[n].role = role}

\* C15: dslink is spawned only after ndstool was spawned earlier in the same
\* invocation and exited with status zero; when ndstool does not succeed the
\* process ends with ndstool's exit code (1 when it has none) and dslink is
\* never spawned.
C15_DeployAfterPackaging ==
    /\ \A n \in Spawns("dslink") :
          \E m \in Spawns("ndstool") : m < n /\ spawned[m].status = "zero"
    /\ \A m \in Spawns("ndstool") :
          spawned[m].status # "zero" =>
              /\ pc = "exited"
              /\ spawned[m].status \in {"exit2", "signal"} => ret.out.tag = "Exit"
              /\ spawned[m].status = "exit2" => exit_code = Some(2)
              /\ spawned[m].status = "signal" => exit_code = Some(1)
              /\ exit_code # Some(0)
              /\ Spawns("dslink") = {}

\* packaging succeeded and the image was deployed
C15_Witness ==
    /\ pc = "returned"
    /\ \E m \in Spawns("ndstool"), n \in Spawns("dslink") :
          /\ m < n
          /\ spawned[m].status = "zero" /\ spawned[n].status = "zero"
    /\ cmds[1].kind = "Run"

\* should_link_to_device as the runner state of the process answers it
ShouldDeploy(cmd) ==
    /\ cmd.kind = "Run" \/ (cmd.kind = "Test" /\ ~cmd.no_run)
    /\ RunnerState # Some(TRUE)

\* C16: when nothing failed, run_callback spawns dslink exactly when
\* should_link_to_device is true for the command: dslink is never spawned when
\* it is false, and a run_callback that returned has spawned it when it is true.
C16_DeployIffShouldDeploy ==
    ret.op = "run_callback" =>
        /\ Spawns("dslink") # {} => ShouldDeploy(ret.input)
        /\ (pc = "returned" /\ ShouldDeploy(ret.input)) => Spawns("dslink") # {}

\* the options in front of the image path in an argument vector of dslink
DslinkOptions(argv) == SubSeq(argv, 1, Len(argv) - 1)
Carries(opts, value) == \E n \in DOMAIN opts : opts[n] = value
Flag(b) == IF b THEN 1 ELSE 0

\* C17: the argument vector of every dslink child ends with the packaged image
\* path and carries every option set on the Run options: the address, the
\* argv0 override, the server flag and the retry count; an unset option
\* contributes nothing.
C17_DeployCarriesAllOptions ==
    \A n \in Spawns("dslink") :
        LET cmd == ret.input
            argv == spawned[n].argv
            opts == DslinkOptions(argv)
        IN  /\ argv[Len(argv)] \in {path_nds([target_path |-> e]) : e \in {EXE_A, EXE_B}}
            /\ IsSome(cmd.address) => Carries(opts, Unwrap(cmd.address))
            /\ IsSome(cmd.argv0) => Carries(opts, Unwrap(cmd.argv0))
            /\ cmd.server => (Carries(opts, "--server") \/ Carries(opts, "-s"))
            /\ IsSome(cmd.retries) => Carries(opts, Unwrap(cmd.retries))
            /\ Len(opts) = 2 * Flag(IsSome(cmd.address)) + 2 * Flag(IsSome(cmd.argv0))
                              + Flag(cmd.server) + 2 * Flag(IsSome(cmd.retries))

-----------------------------------------------------------------------------
(* Claims about artifact resolution *)

Qualifies(m) == m.kind = "CompilerArtifact" /\ IsSome(m.executable)

NO_EXECUTABLE == "No executable found from build command output!"

\* C18: when should_build_ndsx is true for the command and no message is a
\* compiler artifact with an executable, run_callback ends the process with a
\* non-zero exit status (1 after the diagnostic, 101 when cargo metadata itself
\* failed) and spawns neither ndstool nor dslink.
C18_NoArtifactIsFatal ==
    (/\ ret.op = "run_callback"
     /\ ret.input.kind \in {"Build", "Run"} \/ (ret.input.kind = "Test" /\ ~ret.input.doc)
     /\ ~\E n \in DOMAIN messages : Qualifies(messages[n]))
    => /\ pc = "exited"
       /\ exit_code \in {Some(1), Some(101)}
       /\ exit_code = Some(1) <=> Emitted(NO_EXECUTABLE) = 1
       /\ Spawns("ndstool") = {} /\ Spawns("dslink") = {}

\* a Build whose messages hold no artifact: the diagnostic and exit code 1
C18_Witness ==
    /\ ret.op = "run_callback" /\ ret.input.kind = "Build"
    /\ messages = <<OtherMessage>>
    /\ pc = "exited" /\ exit_code = Some(1)
    /\ Emitted(NO_EXECUTABLE) = 1
    /\ spawned = <<>>

\* C7: when the messages hold at least one compiler-artifact message with an
\* executable path, get_metadata selects the last such message in emission
\* order; artifacts without an executable and other messages are ignored.
C7_LastArtifactWins ==
    (ret.op = "get_metadata" /\ ret.out.tag # "Panic") =>
        LET msgs == ret.input
        IN  \A k \in 1..Len(msgs) :
                (Qualifies(msgs[k]) /\ \A j \in (k + 1)..Len(msgs) : ~Qualifies(msgs[j]))
                => /\ ret.out.tag = "Return"
                   /\ Unwrap(ret.out.val).target_path = Unwrap(msgs[k].executable)

C7_Witness ==
    /\ ret.op = "get_metadata"
    /\ ret.input = <<Artifact(Some(EXE_A)), Artifact(Some(EXE_B)), Artifact(None)>>
    /\ ret.out = Returned(Some([target_path |-> EXE_B]))

====
